---- MODULE Spec2Model ----
(***************************************************************************)
(* Monte Carlo Tree Search (src/MCTS.py) driven by the tic-tac-toe state   *)
(* of src/tictactoe.py.                                                    *)
(*                                                                         *)
(* The search tree is an arena: nodes is a sequence of Node records, a     *)
(* node reference is its index (1 = root_node), None is 0.  Every          *)
(* operation of the program is a function from one program state (a        *)
(* record of the locals of MonteCarloTreeSearch) to the next; the actions  *)
(* apply these functions to the variables.  random.choice is the only      *)
(* nondeterministic input and is the \E of the actions.                    *)
(***************************************************************************)
EXTENDS Integers, Sequences, FiniteSets, TLC

VARIABLES
    initial_state,   \* the caller's argument to MonteCarloTreeSearch
    iterations,      \* the caller's argument
    DEBUG,           \* the caller's argument
    exploration_param, \* the caller's keyword argument, or Omitted
    nodes,           \* the arena of Node objects; nodes[1] is root_node
    pc,              \* position in MonteCarloTreeSearch
    i,               \* the loop variable i (rebound by the debug loops)
    range_next,      \* next value the range(iterations) iterator yields
    temp_node,       \* select's temp_node
    selected_node,   \* selected_node
    expanded_node,   \* expanded_node
    sim_state,       \* simulate's sim_state / simulated_state
    most_visited,    \* most_visited
    result,          \* the returned state
    exception,       \* the exception that ended the call, or "none"
    output,          \* the lines printed so far
    shadow           \* second run of the same call (SpecDebug only)

vars == <<initial_state, iterations, DEBUG, exploration_param, nodes, pc, i, range_next,
          temp_node, selected_node, expanded_node, sim_state, most_visited,
          result, exception, output, shadow>>

----------------------------------------------------------------------------
(* Bounds of the model *)

\* iterations is drawn from -1 .. MaxIterations
MaxIterations == 6

\* the initial boards have at most MaxEmpty empty cells
MaxEmpty == 3

\* where termination is checked, iterations is drawn from -1 .. MaxFairIterations
MaxFairIterations == 5

----------------------------------------------------------------------------
(* tictactoe.py *)

None == 0

\* no state is bound yet
NoState == [board |-> <<>>, player |-> "None"]

PLAYER1 == "PLAYER1"
PLAYER2 == "PLAYER2"
Players == {PLAYER1, PLAYER2}

CONTINUE == "CONTINUE"
DRAW == "DRAW"

Cells == [k \in 1..9 |-> k - 1]

\* TTT_state(board, player)
TTT_state(board, player) == [board |-> board, player |-> player]

\* fault: the cell gets the mark of PLAYER1 whoever moves
take_action_first_mark(board, location, player) ==
    [board EXCEPT ![location] = 1]

\* TTT_board.take_action: a copy of the board with one cell written
take_action(board, location, player) ==
    [board EXCEPT ![location] = IF player = PLAYER1 THEN 1 ELSE 2]

\* TTT_board.possible_actions: the indexes holding 0, in increasing order
possible_actions(board) == SelectSeq(Cells, LAMBDA x : board[x] = 0)

\* the owner of a line found by check_game_state
LineOwner(v) == IF v = 1 THEN PLAYER1 ELSE PLAYER2

\* the for loop of check_game_state: row k, then column k, for k = 0, 1, 2
RECURSIVE check_lines(_, _)
check_lines(board, k) ==
    IF k > 2 THEN CONTINUE
    ELSE IF board[3 * k] # 0 /\ board[3 * k] = board[3 * k + 1]
                             /\ board[3 * k + 1] = board[3 * k + 2]
         THEN LineOwner(board[3 * k])
    ELSE IF board[k] # 0 /\ board[k] = board[k + 3] /\ board[k + 3] = board[k + 6]
         THEN LineOwner(board[k])
    ELSE check_lines(board, k + 1)

\* fault: a full board without a line is not reported as a draw
check_game_state_no_draw(board) ==
    LET lines == check_lines(board, 0) IN
    IF lines # CONTINUE THEN lines
    ELSE IF board[0] # 0 /\ board[0] = board[4] /\ board[4] = board[8]
         THEN LineOwner(board[0])
    ELSE IF board[2] # 0 /\ board[2] = board[4] /\ board[4] = board[6]
         THEN LineOwner(board[2])
    ELSE CONTINUE

\* TTT_board.check_game_state
check_game_state(board) ==
    LET lines == check_lines(board, 0) IN
    IF lines # CONTINUE THEN lines
    ELSE IF board[0] # 0 /\ board[0] = board[4] /\ board[4] = board[8]
         THEN LineOwner(board[0])
    ELSE IF board[2] # 0 /\ board[2] = board[4] /\ board[4] = board[6]
         THEN LineOwner(board[2])
    ELSE IF Len(possible_actions(board)) = 0 THEN DRAW
    ELSE CONTINUE

\* TTT_state.terminated
terminated(state) == check_game_state(state.board) # CONTINUE

\* fault: the actions already taken are not filtered out
possible_action_locations_unfiltered(state, actions_taken) ==
    possible_actions(state.board)

\* the list random.choice draws from in TTT_state.random_action
possible_action_locations(state, actions_taken) ==
    SelectSeq(possible_actions(state.board),
              LAMBDA x : \A k \in 1..Len(actions_taken) : actions_taken[k] # x)

\* fault: the state keeps its player, who then also makes the move
other_player_same(state) == state.player

other_player(state) == IF state.player = PLAYER1 THEN PLAYER2 ELSE PLAYER1

\* TTT_state.random_action once random.choice has drawn random_action
random_action(state, action) ==
    TTT_state(take_action(state.board, action, other_player(state)),
              other_player(state))

\* fault: a win of PLAYER2 is scored as a win of PLAYER1 is
update_value_one_sided(state, terminationState) ==
    LET finished_game_state == check_game_state(terminationState.board) IN
    IF finished_game_state = DRAW THEN 0
    ELSE IF state.player = PLAYER1 THEN 1 ELSE -1

\* TTT_state.update_value
update_value(state, terminationState) ==
    LET finished_game_state == check_game_state(terminationState.board) IN
    IF finished_game_state = DRAW THEN 0
    ELSE IF finished_game_state = PLAYER1
         THEN (IF state.player = PLAYER1 THEN 1 ELSE -1)
    ELSE (IF state.player = PLAYER2 THEN 1 ELSE -1)

\* fault: a state counts as exhausted only past its number of actions
state_exhausted_strict(state, actions_taken) ==
    actions_taken > Len(possible_actions(state.board))

\* TTT_state.state_exhausted
state_exhausted(state, actions_taken) ==
    actions_taken >= Len(possible_actions(state.board))

----------------------------------------------------------------------------
(* MCTS.py: Node and calc_UCB *)

\* f(v) with v evaluated once, as the argument of a Python call is
bind(v, f(_)) == CHOOSE r \in {f(x) : x \in {v}} : TRUE

\* fault: a new node counts its creation as a visit
Node_counted(state, parent) ==
    [state |-> state, parent |-> parent, children |-> <<>>,
     actions_taken |-> <<>>, visits |-> 1, value |-> 0, ucb |-> 0]

\* Node.__init__
Node(state, parent) ==
    [state |-> state, parent |-> parent, children |-> <<>>,
     actions_taken |-> <<>>, visits |-> 0, value |-> 0, ucb |-> 0]

root_node == 1

\* Scores are fixed-point numbers: a float x is the integer floor(x * 10^4).
\* LnTable[n] is math.log(n) * 10^8.  For visits up to 12 (the length of the
\* table) two fixed-point scores compare as the two floats do: equal floats
\* give equal integers, and unequal floats differ by more than the rounding.
LnTable ==
    <<0, 69314718, 109861229, 138629436, 160943791, 179175947, 194591015,
      207944154, 219722458, 230258509, 239789527, 248490665>>

\* math.sqrt on fixed-point numbers: the integer square root, by bisection
RECURSIVE isqrt_search(_, _, _)
isqrt_search(x, lo, hi) ==
    IF hi - lo <= 1 THEN lo
    ELSE bind((lo + hi) \div 2,
              LAMBDA mid : IF mid * mid <= x THEN isqrt_search(x, mid, hi)
                           ELSE isqrt_search(x, lo, mid))

sqrt(x) == bind(x, LAMBDA v : isqrt_search(v, 0, 32768))

\* math.sqrt(2), the default of calc_UCB's exploration_param
SQRT2 == 14142

\* the keyword arguments of a caller that gives no exploration_param
Omitted == <<>>

\* the exception calc_UCB raises, or "none": child.value / child.visits
\* divides by child.visits, math.log(parent.visits) needs parent.visits > 0
calc_UCB_raises(child, parent) ==
    IF child.visits = 0 THEN "ZeroDivisionError"
    ELSE IF parent.visits <= 0 THEN "ValueError"
    ELSE "none"

\* calc_UCB where it does not raise
calc_UCB(child, parent, param) ==
    LET exploitation == (child.value * 10000) \div child.visits
        exploration == (param * sqrt(LnTable[parent.visits] \div child.visits))
                           \div 10000
    IN exploitation + exploration

----------------------------------------------------------------------------
(* MCTS.py: select, expand, simulate, backpropogate *)

\* fault: select descends as soon as the node has a child
select_while_eager(n) == Len(n.children) > 0

\* the condition of select's while loop at node n
select_while(n) ==
    Len(n.children) > 0 /\ state_exhausted(n.state, Len(n.children))

\* the exploration_param select hands to calc_UCB: none, so the default
select_param == SQRT2

\* fault: a child's score is computed once and kept for the later passes
RECURSIVE select_for_cached(_, _, _, _)
select_for_cached(ns, temp, k, max_ucb_child) ==
    IF k > Len(ns[temp].children)
    THEN [nodes |-> ns, max_ucb_child |-> max_ucb_child, raised |-> "none"]
    ELSE LET child == ns[temp].children[k]
             exc == calc_UCB_raises(ns[child], ns[temp])
         IN IF exc # "none"
            THEN [nodes |-> ns, max_ucb_child |-> max_ucb_child, raised |-> exc]
            ELSE LET ns2 == [ns EXCEPT ![child].ucb =
                                 IF @ # 0 THEN @
                                 ELSE calc_UCB(ns[child], ns[temp], select_param)]
                 IN bind([nodes |-> ns2,
                          max_ucb_child |->
                              IF ns2[child].ucb > ns2[max_ucb_child].ucb
                              THEN child ELSE max_ucb_child],
                         LAMBDA v : select_for_cached(v.nodes, temp, k + 1,
                                                      v.max_ucb_child))

\* one pass of select's for loop over temp.children, from the k-th child on:
\* the arena with the children's ucb written, max_ucb_child, and the
\* exception that stopped the loop
RECURSIVE select_for(_, _, _, _)
select_for(ns, temp, k, max_ucb_child) ==
    IF k > Len(ns[temp].children)
    THEN [nodes |-> ns, max_ucb_child |-> max_ucb_child, raised |-> "none"]
    ELSE LET child == ns[temp].children[k]
             exc == calc_UCB_raises(ns[child], ns[temp])
         IN IF exc # "none"
            THEN [nodes |-> ns, max_ucb_child |-> max_ucb_child, raised |-> exc]
            ELSE LET ns2 == [ns EXCEPT ![child].ucb =
                                 calc_UCB(ns[child], ns[temp], select_param)]
                 IN bind([nodes |-> ns2,
                          max_ucb_child |->
                              IF ns2[child].ucb > ns2[max_ucb_child].ucb
                              THEN child ELSE max_ucb_child],
                         LAMBDA v : select_for(v.nodes, temp, k + 1,
                                               v.max_ucb_child))

\* fault: the walk stops below the root, whose visits is not updated
RECURSIVE backpropogate_skip_root(_, _, _)
backpropogate_skip_root(ns, current_node, state) ==
    IF ns[current_node].parent # None
    THEN bind([ns EXCEPT ![current_node].value =
                             @ + update_value(ns[current_node].state, state),
                         ![current_node].visits = @ + 1],
              LAMBDA v : backpropogate_skip_root(v, v[current_node].parent,
                                                 state))
    ELSE ns

\* fault: the root is updated like every other node of the chain
RECURSIVE backpropogate_root_value(_, _, _)
backpropogate_root_value(ns, current_node, state) ==
    LET updated == [ns EXCEPT ![current_node].value =
                                  @ + update_value(ns[current_node].state, state),
                              ![current_node].visits = @ + 1]
    IN IF ns[current_node].parent # None
       THEN bind(updated,
                 LAMBDA v : backpropogate_root_value(v, v[current_node].parent,
                                                     state))
       ELSE updated

\* backpropogate: the walk up the parent chain from current_node
RECURSIVE backpropogate(_, _, _)
backpropogate(ns, current_node, state) ==
    IF ns[current_node].parent # None
    THEN bind([ns EXCEPT ![current_node].value =
                             @ + update_value(ns[current_node].state, state),
                         ![current_node].visits = @ + 1],
              LAMBDA v : backpropogate(v, v[current_node].parent, state))
    ELSE [ns EXCEPT ![current_node].visits = @ + 1]

\* fault: the sort is not stable, x goes before the entries with its visits
RECURSIVE sorted_insert_unstable(_, _, _)
sorted_insert_unstable(ns, lst, x) ==
    IF lst = <<>> THEN <<x>>
    ELSE IF ns[Head(lst)].visits > ns[x].visits
         THEN <<Head(lst)>> \o sorted_insert_unstable(ns, Tail(lst), x)
    ELSE <<x>> \o lst

\* insertion of node x into a list sorted by visits, largest first, after
\* the entries with the same visits
RECURSIVE sorted_insert(_, _, _)
sorted_insert(ns, lst, x) ==
    IF lst = <<>> THEN <<x>>
    ELSE IF ns[Head(lst)].visits >= ns[x].visits
         THEN <<Head(lst)>> \o sorted_insert(ns, Tail(lst), x)
    ELSE <<x>> \o lst

\* sorted(children, key=lambda n: n.visits, reverse=True): a stable sort
RECURSIVE sorted_by_visits(_, _)
sorted_by_visits(ns, children) ==
    IF children = <<>> THEN <<>>
    ELSE bind(sorted_by_visits(ns, SubSeq(children, 1, Len(children) - 1)),
              LAMBDA lst : sorted_insert(ns, lst, children[Len(children)]))

----------------------------------------------------------------------------
(* MCTS.py: MonteCarloTreeSearch, one function per position of the call.  *)
(* s is the program state: the arguments and the locals of the call.      *)

\* the call ends with an exception
raise(s, exc) == [s EXCEPT !.pc = "raised", !.exception = exc]

\* the lines printed for the children of node n, and what the loop
\* "for i, child in enumerate(n.children)" leaves in i
child_lines(ns, n, label) ==
    [k \in 1..Len(ns[n].children) |->
        LET child == ns[ns[n].children[k]] IN
        <<label, k - 1, child.visits, child.value, child.ucb>>]

enumerate_i(ns, n, old_i) ==
    IF Len(ns[n].children) > 0 THEN Len(ns[n].children) - 1 ELSE old_i

node_line(ns, n, label) == <<label, ns[n].visits, ns[n].value, ns[n].ucb>>

\* TTT_state.__str__: the cells in reading order
state_str(state) == [k \in 1..9 |-> state.board[k - 1]]

\* binding the arguments: the signature is (initial_state, iterations, DEBUG),
\* so a call with the keyword exploration_param raises TypeError;
\* otherwise root_node = Node(initial_state)
call(s) ==
    IF s.exploration_param # Omitted THEN raise(s, "TypeError")
    ELSE [s EXCEPT !.nodes = <<Node(s.initial_state, None)>>, !.pc = "for"]

\* fault: the loop counts in i itself (as a C for loop does), so a body that
\* rebinds i moves the loop
for_range_counts_in_i(s) ==
    LET next == IF s.range_next = 0 THEN 0 ELSE s.i + 1 IN
    IF next < s.iterations
    THEN [s EXCEPT !.i = next, !.range_next = @ + 1,
                   !.temp_node = root_node, !.pc = "select"]
    ELSE [s EXCEPT !.pc = "sorted"]

\* for i in range(iterations): the iterator yields the next index or ends
\* the loop; select(root_node) is entered with temp_node = root
for_range(s) ==
    IF s.range_next < s.iterations
    THEN [s EXCEPT !.i = s.range_next, !.range_next = @ + 1,
                   !.temp_node = root_node, !.pc = "select"]
    ELSE [s EXCEPT !.pc = "sorted"]

\* fault: the descent scores the children but stays at the node
select_stays(s) ==
    IF select_while(s.nodes[s.temp_node])
    THEN bind(select_for(s.nodes, s.temp_node, 1,
                         s.nodes[s.temp_node].children[1]),
              LAMBDA r :
                  IF r.raised # "none"
                  THEN raise([s EXCEPT !.nodes = r.nodes], r.raised)
                  ELSE [s EXCEPT !.nodes = r.nodes])
    ELSE [s EXCEPT !.selected_node = s.temp_node, !.pc = "expand"]

\* select: one evaluation of the while condition and, when it holds, of
\* the loop body; when it fails select returns temp_node
select(s) ==
    IF select_while(s.nodes[s.temp_node])
    THEN bind(select_for(s.nodes, s.temp_node, 1,
                         s.nodes[s.temp_node].children[1]),
              LAMBDA r :
                  IF r.raised # "none"
                  THEN raise([s EXCEPT !.nodes = r.nodes], r.raised)
                  ELSE [s EXCEPT !.nodes = r.nodes,
                                 !.temp_node = r.max_ucb_child])
    ELSE [s EXCEPT !.selected_node = s.temp_node, !.pc = "expand"]

\* what random.choice may return for a list: <<x>> for an element x;
\* NoChoice where it is not called or the list is empty
NoChoice == <<>>

choices(lst) == {<<lst[k]>> : k \in 1..Len(lst)}

expand_choices(s) ==
    LET current_node == s.nodes[s.selected_node] IN
    IF terminated(current_node.state) THEN {NoChoice}
    ELSE LET lst == possible_action_locations(current_node.state,
                                              current_node.actions_taken)
         IN IF lst = <<>> THEN {NoChoice} ELSE choices(lst)

\* fault: the new node is given the root as its parent
expand_under_root(s, drawn) ==
    LET current_node == s.nodes[s.selected_node] IN
    IF terminated(current_node.state)
    THEN [s EXCEPT !.expanded_node = s.selected_node,
                   !.sim_state = current_node.state, !.pc = "simulate"]
    ELSE IF drawn = NoChoice
         THEN raise(s, "IndexError: Cannot choose from an empty sequence")
    ELSE LET action_number == drawn[1]
             next_state == random_action(current_node.state, action_number)
             next_node == Len(s.nodes) + 1
         IN [s EXCEPT !.nodes =
                         Append([s.nodes EXCEPT
                                    ![s.selected_node].actions_taken =
                                        Append(@, action_number),
                                    ![s.selected_node].children =
                                        Append(@, next_node)],
                                Node(next_state, root_node)),
                      !.expanded_node = next_node,
                      !.sim_state = next_state, !.pc = "simulate"]

\* fault: the action drawn is not recorded in actions_taken
expand_forgets_action(s, drawn) ==
    LET current_node == s.nodes[s.selected_node] IN
    IF terminated(current_node.state)
    THEN [s EXCEPT !.expanded_node = s.selected_node,
                   !.sim_state = current_node.state, !.pc = "simulate"]
    ELSE IF drawn = NoChoice
         THEN raise(s, "IndexError: Cannot choose from an empty sequence")
    ELSE LET action_number == drawn[1]
             next_state == random_action(current_node.state, action_number)
             next_node == Len(s.nodes) + 1
         IN [s EXCEPT !.nodes =
                         Append([s.nodes EXCEPT
                                    ![s.selected_node].children =
                                        Append(@, next_node)],
                                Node(next_state, s.selected_node)),
                      !.expanded_node = next_node,
                      !.sim_state = next_state, !.pc = "simulate"]

\* expand(selected_node), random.choice having returned drawn;
\* simulate(expanded_node) is entered with sim_state = its state
expand(s, drawn) ==
    LET current_node == s.nodes[s.selected_node] IN
    IF terminated(current_node.state)
    THEN [s EXCEPT !.expanded_node = s.selected_node,
                   !.sim_state = current_node.state, !.pc = "simulate"]
    ELSE IF drawn = NoChoice
         THEN raise(s, "IndexError: Cannot choose from an empty sequence")
    ELSE LET action_number == drawn[1]
             next_state == random_action(current_node.state, action_number)
             next_node == Len(s.nodes) + 1
         IN [s EXCEPT !.nodes =
                         Append([s.nodes EXCEPT
                                    ![s.selected_node].actions_taken =
                                        Append(@, action_number),
                                    ![s.selected_node].children =
                                        Append(@, next_node)],
                                Node(next_state, s.selected_node)),
                      !.expanded_node = next_node,
                      !.sim_state = next_state, !.pc = "simulate"]

simulate_choices(s) ==
    IF terminated(s.sim_state) THEN {NoChoice}
    ELSE LET lst == possible_action_locations(s.sim_state, <<>>)
         IN IF lst = <<>> THEN {NoChoice} ELSE choices(lst)

\* fault: the rollout advances the state object of the expanded node itself
simulate_in_place(s, drawn) ==
    IF terminated(s.sim_state) THEN [s EXCEPT !.pc = "backpropogate"]
    ELSE IF drawn = NoChoice
         THEN raise(s, "IndexError: Cannot choose from an empty sequence")
    ELSE LET next_state == random_action(s.sim_state, drawn[1]) IN
         [s EXCEPT !.sim_state = next_state,
                   !.nodes[s.expanded_node].state = next_state]

\* simulate: one evaluation of the while condition and, when it holds, of
\* the loop body; when it fails simulate returns sim_state
simulate(s, drawn) ==
    IF terminated(s.sim_state) THEN [s EXCEPT !.pc = "backpropogate"]
    ELSE IF drawn = NoChoice
         THEN raise(s, "IndexError: Cannot choose from an empty sequence")
    ELSE [s EXCEPT !.sim_state = random_action(s.sim_state, drawn[1])]

\* fault: the walk starts at selected_node, the new child is not updated
backprop_selected(s) ==
    [s EXCEPT !.nodes = backpropogate(s.nodes, s.selected_node, s.sim_state),
              !.pc = "debug"]

\* backpropogate(expanded_node, simulated_state)
backprop(s) ==
    [s EXCEPT !.nodes = backpropogate(s.nodes, s.expanded_node, s.sim_state),
              !.pc = "debug"]

\* if i < 10 and DEBUG: the per-iteration report
debug_iteration(s) ==
    IF s.i < 10 /\ s.DEBUG
    THEN [s EXCEPT !.output = @ \o <<<<"State", s.i>>,
                                     node_line(s.nodes, root_node, "Root")>>
                                \o child_lines(s.nodes, root_node, "Child"),
                   !.i = enumerate_i(s.nodes, root_node, s.i),
                   !.pc = "for"]
    ELSE [s EXCEPT !.pc = "for"]

\* most_visited = sorted(root_node.children, ...)[0]
choose_most_visited(s) ==
    LET lst == sorted_by_visits(s.nodes, s.nodes[root_node].children) IN
    IF lst = <<>> THEN raise(s, "IndexError: list index out of range")
    ELSE [s EXCEPT !.most_visited = lst[1], !.pc = "final_debug"]

\* if DEBUG: the final report; return most_visited.state
return_state(s) ==
    LET t == [s EXCEPT !.result = s.nodes[s.most_visited].state, !.pc = "done"]
    IN IF s.DEBUG
       THEN [t EXCEPT !.output = @ \o <<<<"Final State">>,
                                        node_line(s.nodes, root_node, "Root")>>
                                   \o child_lines(s.nodes, root_node, "Child")
                                   \o <<node_line(s.nodes, s.most_visited, "Best Choice")
                                        \o <<state_str(s.nodes[s.most_visited].state)>>>>
                                   \o child_lines(s.nodes, s.most_visited, "Best Children"),
                      !.i = enumerate_i(s.nodes, s.most_visited,
                                        enumerate_i(s.nodes, root_node, s.i))]
       ELSE t

----------------------------------------------------------------------------
(* The calls checked *)

\* a full board without a line (a draw), and the order in which its cells
\* are emptied to make the initial boards
FullBoard == [c \in 0..8 |-> <<1, 1, 2, 2, 1, 1, 1, 2, 2>>[c + 1]]

EmptyOrder == <<8, 6, 1, 3, 0, 2, 4, 5, 7>>

\* FullBoard with the first m cells of EmptyOrder empty
InitialBoard(m) ==
    [c \in 0..8 |-> IF \E k \in 1..m : EmptyOrder[k] = c THEN 0 ELSE FullBoard[c]]

InitialStates ==
    {TTT_state(InitialBoard(m), p) : m \in 0..MaxEmpty, p \in Players}

\* the exploration_param keyword of the calls checked: absent, or 1.0
ExplorationParams == {Omitted, <<10000>>}

----------------------------------------------------------------------------
(* The state machine *)

\* the program state as one record, and the assignment of one to the variables
Prog ==
    [initial_state |-> initial_state, iterations |-> iterations,
     DEBUG |-> DEBUG, exploration_param |-> exploration_param,
     nodes |-> nodes, pc |-> pc, i |-> i, range_next |-> range_next,
     temp_node |-> temp_node, selected_node |-> selected_node,
     expanded_node |-> expanded_node, sim_state |-> sim_state,
     most_visited |-> most_visited, result |-> result,
     exception |-> exception, output |-> output]

Install(s) ==
    \E v \in {s} :
        /\ initial_state' = v.initial_state
        /\ iterations' = v.iterations
        /\ DEBUG' = v.DEBUG
        /\ exploration_param' = v.exploration_param
        /\ nodes' = v.nodes
        /\ pc' = v.pc
        /\ i' = v.i
        /\ range_next' = v.range_next
        /\ temp_node' = v.temp_node
        /\ selected_node' = v.selected_node
        /\ expanded_node' = v.expanded_node
        /\ sim_state' = v.sim_state
        /\ most_visited' = v.most_visited
        /\ result' = v.result
        /\ exception' = v.exception
        /\ output' = v.output

\* the state at the call: nothing is bound but the arguments
entry(state, n, debug, param) ==
    [initial_state |-> state, iterations |-> n, DEBUG |-> debug,
     exploration_param |-> param, nodes |-> <<>>, pc |-> "call",
     i |-> None, range_next |-> 0, temp_node |-> None,
     selected_node |-> None, expanded_node |-> None, sim_state |-> NoState,
     most_visited |-> None, result |-> NoState, exception |-> "none",
     output |-> <<>>]

\* the variables hold program state s
Install_init(s) ==
    /\ initial_state = s.initial_state
    /\ iterations = s.iterations
    /\ DEBUG = s.DEBUG
    /\ exploration_param = s.exploration_param
    /\ nodes = s.nodes
    /\ pc = s.pc
    /\ i = s.i
    /\ range_next = s.range_next
    /\ temp_node = s.temp_node
    /\ selected_node = s.selected_node
    /\ expanded_node = s.expanded_node
    /\ sim_state = s.sim_state
    /\ most_visited = s.most_visited
    /\ result = s.result
    /\ exception = s.exception
    /\ output = s.output

Init ==
    /\ \E state \in InitialStates, n \in -1..MaxIterations,
          debug \in BOOLEAN, param \in ExplorationParams :
          Install_init(entry(state, n, debug, param))
    /\ shadow = <<>>

\* the step of program state s at its own position, random.choice having
\* returned drawn
draws(s) ==
    IF s.pc = "expand" THEN expand_choices(s)
    ELSE IF s.pc = "simulate" THEN simulate_choices(s)
    ELSE {NoChoice}

step(s, drawn) ==
    IF drawn \notin draws(s) THEN [s EXCEPT !.pc = "diverged"]
    ELSE CASE s.pc = "call" -> call(s)
           [] s.pc = "for" -> for_range(s)
           [] s.pc = "select" -> select(s)
           [] s.pc = "expand" -> expand(s, drawn)
           [] s.pc = "simulate" -> simulate(s, drawn)
           [] s.pc = "backpropogate" -> backprop(s)
           [] s.pc = "debug" -> debug_iteration(s)
           [] s.pc = "sorted" -> choose_most_visited(s)
           [] s.pc = "final_debug" -> return_state(s)
           [] OTHER -> s

\* the runs of shadow take their step with the same draw
Mirror(drawn) == shadow' = [k \in 1..Len(shadow) |-> step(shadow[k], drawn)]

Call == pc = "call" /\ \E s \in {Prog} : Install(call(s)) /\ Mirror(NoChoice)

ForRange == pc = "for" /\ \E s \in {Prog} : Install(for_range(s)) /\ Mirror(NoChoice)

Select == pc = "select" /\ \E s \in {Prog} : Install(select(s)) /\ Mirror(NoChoice)

Expand ==
    /\ pc = "expand"
    /\ \E s \in {Prog} : \E a \in expand_choices(s) : Install(expand(s, a)) /\ Mirror(a)

Simulate ==
    /\ pc = "simulate"
    /\ \E s \in {Prog} : \E a \in simulate_choices(s) : Install(simulate(s, a)) /\ Mirror(a)

Backpropogate ==
    pc = "backpropogate" /\ \E s \in {Prog} : Install(backprop(s)) /\ Mirror(NoChoice)

DebugIteration ==
    pc = "debug" /\ \E s \in {Prog} : Install(debug_iteration(s)) /\ Mirror(NoChoice)

MostVisited ==
    pc = "sorted" /\ \E s \in {Prog} : Install(choose_most_visited(s)) /\ Mirror(NoChoice)

Return ==
    pc = "final_debug" /\ \E s \in {Prog} : Install(return_state(s)) /\ Mirror(NoChoice)

Next ==
    \/ Call
    \/ ForRange
    \/ Select
    \/ Expand
    \/ Simulate
    \/ Backpropogate
    \/ DebugIteration
    \/ MostVisited
    \/ Return

Spec == Init /\ [][Next]_vars

\* the same calls, each beside a second run of it that differs in DEBUG only
\* and sees the same draws of random.choice
InitDebug ==
    /\ \E state \in InitialStates, n \in -1..MaxIterations, debug \in BOOLEAN :
          /\ Install_init(entry(state, n, debug, Omitted))
          /\ shadow = <<entry(state, n, ~debug, Omitted)>>

SpecDebug == InitDebug /\ [][Next]_vars

\* the calls checked for termination
InitFair ==
    /\ \E state \in InitialStates, n \in -1..MaxFairIterations,
          debug \in BOOLEAN, param \in ExplorationParams :
          Install_init(entry(state, n, debug, param))
    /\ shadow = <<>>

\* the interpreter runs the call to its end: a step that can be taken is taken
SpecFair == InitFair /\ [][Next]_vars /\ WF_vars(Next)

----------------------------------------------------------------------------
(* Properties *)

NodeIds == 1..Len(nodes)

children_of(n) == nodes[n].children

\* the positions between iterations and after the loop
BetweenIterations == pc \in {"for", "sorted", "final_debug", "done"}

\* the call was accepted, on a state that is not terminal, for >= 1 iterations
ProperCall ==
    /\ exploration_param = Omitted
    /\ ~terminated(initial_state)
    /\ iterations >= 1

\* C1: for a non-terminal initial state and iterations >= 1 the search
\* returns (it does not raise) the state of the child of the root with the
\* maximum visits, and among the children with that maximum the first in
\* insertion order.
C1_ReturnsFirstMostVisited ==
    ProperCall =>
        /\ pc # "raised"
        /\ pc = "done" =>
              \E k \in 1..Len(children_of(root_node)) :
                  LET ch == children_of(root_node) IN
                  /\ most_visited = ch[k]
                  /\ result = nodes[ch[k]].state
                  /\ \A j \in 1..Len(ch) : nodes[ch[j]].visits <= nodes[ch[k]].visits
                  /\ \A j \in 1..(k - 1) : nodes[ch[j]].visits < nodes[ch[k]].visits

\* a search returned a child that is not the first one and ties with a later one
C1_Witness ==
    /\ ProperCall
    /\ pc = "done"
    /\ \E k, l \in 1..Len(children_of(root_node)) :
          /\ 1 < k /\ k < l
          /\ most_visited = children_of(root_node)[k]
          /\ nodes[children_of(root_node)[l]].visits = nodes[most_visited].visits

\* C2: after k completed iterations (range_next counts them between
\* iterations) the root's visits is exactly k.
C2_RootVisitsCountIterations ==
    (BetweenIterations \/ pc = "debug") => nodes[root_node].visits = range_next

\* two iterations are complete and the last one selected a terminal node
C2_Witness ==
    /\ pc = "for"
    /\ range_next >= 2
    /\ nodes[root_node].visits = range_next
    /\ terminated(nodes[selected_node].state)
    /\ expanded_node = selected_node

\* C3: every node has as many children as actions_taken, and its
\* actions_taken holds no action twice.
C3_ChildrenMatchActions ==
    \A n \in NodeIds :
        /\ Len(nodes[n].children) = Len(nodes[n].actions_taken)
        /\ \A j, k \in 1..Len(nodes[n].actions_taken) :
              j # k => nodes[n].actions_taken[j] # nodes[n].actions_taken[k]

\* a node below the root has been expanded twice
C3_Witness ==
    /\ pc = "for"
    /\ \E n \in NodeIds : n # root_node /\ Len(nodes[n].actions_taken) >= 2

\* the parent chain from node n up to the node without a parent
RECURSIVE parent_chain(_, _)
parent_chain(ns, n) ==
    IF n = None THEN {} ELSE {n} \cup parent_chain(ns, ns[n].parent)

\* C4: backpropagation walks the parent chain from the expanded node to the
\* root: every node of the chain below the root gets value += its own
\* update_value(terminal state) and visits += 1, the root gets visits += 1
\* only, every other node keeps its visits and value; the root's value
\* stays 0 throughout.
C4_BackpropagationFrame ==
    [][/\ pc = "backpropogate" =>
              LET chain == parent_chain(nodes, expanded_node) IN
              /\ root_node \in chain
              /\ Len(nodes') = Len(nodes)
              /\ \A n \in NodeIds :
                    IF n = root_node
                    THEN /\ nodes'[n].visits = nodes[n].visits + 1
                         /\ nodes'[n].value = nodes[n].value
                    ELSE IF n \in chain
                    THEN /\ nodes'[n].visits = nodes[n].visits + 1
                         /\ nodes'[n].value =
                                nodes[n].value
                                    + update_value(nodes[n].state, sim_state)
                    ELSE /\ nodes'[n].visits = nodes[n].visits
                         /\ nodes'[n].value = nodes[n].value
       /\ nodes' # <<>> => nodes'[root_node].value = 0
      ]_vars

\* a backpropagation has just run from a node two levels below the root, a
\* rollout that was not a draw, beside a sibling subtree it left alone
C4_Witness ==
    /\ pc = "debug"
    /\ nodes[expanded_node].parent \notin {None, root_node}
    /\ nodes[expanded_node].value # 0
    /\ nodes[nodes[expanded_node].parent].value # 0
    /\ \E n \in NodeIds : n \notin parent_chain(nodes, expanded_node)

\* the exceptions of the list and arithmetic operations, which name no
\* violated precondition of the search
LowLevelFaults ==
    {"IndexError: list index out of range",
     "IndexError: Cannot choose from an empty sequence",
     "ZeroDivisionError", "ValueError"}

\* C5: a search whose initial state is already terminal fails with the
\* precondition error: it does not end in a low-level fault such as the
\* indexing of an empty child list (nor return).
C5_TerminalRootRejected ==
    (exploration_param = Omitted /\ terminated(initial_state)) =>
        /\ pc # "done"
        /\ exception \notin LowLevelFaults

\* C6: a search with iterations < 1 is rejected as a configuration error:
\* it does not go on to choose the most visited child of a root that has no
\* children.
C6_NoIterationsRejected ==
    (exploration_param = Omitted /\ iterations < 1) =>
        /\ pc \notin {"sorted", "final_debug", "done"}
        /\ exception # "IndexError: list index out of range"

\* C7: between iterations every node below the root has visits >= 1; every
\* calc_UCB evaluation of select has child.visits > 0 and parent.visits > 0,
\* so select never raises; the child chosen at the end has visits > 0.
C7_VisitsPositive ==
    /\ BetweenIterations =>
          \A n \in NodeIds : n # root_node => nodes[n].visits >= 1
    /\ (pc = "select" /\ select_while(nodes[temp_node])) =>
          /\ nodes[temp_node].visits > 0
          /\ \A k \in 1..Len(children_of(temp_node)) :
                nodes[children_of(temp_node)[k]].visits > 0
    /\ exception \notin {"ZeroDivisionError", "ValueError"}
    /\ pc \in {"final_debug", "done"} => nodes[most_visited].visits > 0

\* select is about to score the children of a node below the root
C7_Witness ==
    /\ pc = "select"
    /\ temp_node # root_node
    /\ select_while(nodes[temp_node])
    /\ Len(children_of(temp_node)) >= 2

\* the cells in which two boards differ
diff_cells(b1, b2) == {c \in 0..8 : b1[c] # b2[c]}

\* C8: the state returned from a non-terminal initial state is a legal
\* single move: its board differs from the initial board in exactly one
\* cell, which was empty and now holds the mark of the acting player, the
\* opponent of initial_state.player, who is the returned state's player.
C8_ReturnsLegalMove ==
    pc = "done" =>
        LET acting == IF initial_state.player = PLAYER1 THEN PLAYER2 ELSE PLAYER1
            d == diff_cells(initial_state.board, result.board)
        IN /\ Cardinality(d) = 1
           /\ \A c \in d : /\ initial_state.board[c] = 0
                           /\ result.board[c] = IF acting = PLAYER1 THEN 1 ELSE 2
           /\ result.player = acting

\* a search returned a move into a cell other than the first empty one
C8_Witness ==
    /\ pc = "done"
    /\ ~terminated(initial_state)
    /\ \E c \in diff_cells(initial_state.board, result.board) :
          \E e \in 0..(c - 1) : initial_state.board[e] = 0

\* C9: the search accepts an exploration_param, and select scores the
\* children with exactly the value the caller passed.
C9_ExplorationParamUsed ==
    exploration_param # Omitted =>
        /\ exception # "TypeError"
        /\ (pc = "select" /\ select_while(nodes[temp_node])) =>
              select_param = exploration_param[1]

\* C10: a run with DEBUG and the run without it that sees the same draws are
\* at the same position after the same number of iterations, with the same
\* tree (shape, visits, value), the same exception and the same result.
C10_DebugHasNoEffect ==
    /\ Len(shadow) = 1
    /\ shadow[1].DEBUG # DEBUG
    /\ shadow[1].pc = pc
    /\ shadow[1].range_next = range_next
    /\ shadow[1].nodes = nodes
    /\ shadow[1].most_visited = most_visited
    /\ shadow[1].exception = exception
    /\ shadow[1].result = result

\* a run with DEBUG returned after reports that rebound i, beside its twin
C10_Witness ==
    /\ pc = "done"
    /\ DEBUG
    /\ range_next >= 3
    /\ i # range_next - 1
    /\ Len(output) > 0
    /\ Len(shadow) = 1
    /\ shadow[1].output = <<>>

\* the initial state has exactly one legal action
OneLegalAction ==
    /\ exploration_param = Omitted
    /\ ~terminated(initial_state)
    /\ Len(possible_actions(initial_state.board)) = 1

\* C11: with exactly one legal action at the root, after the first iteration
\* the root has exactly one child and state_exhausted(1) is true; in every
\* later iteration select descends through the root, so expand is never
\* applied to the root again and the root never gets a second child.
C11_SingleActionRootExhausted ==
    (OneLegalAction /\ pc # "call") =>
        /\ Len(children_of(root_node)) <= 1
        /\ (range_next >= 2 \/ (range_next = 1 /\ BetweenIterations)) =>
              /\ Len(children_of(root_node)) = 1
              /\ state_exhausted(nodes[root_node].state, 1)
        /\ (range_next >= 2 /\ pc \in {"expand", "simulate", "backpropogate", "debug"}) =>
              selected_node # root_node
        /\ iterations >= 1 => pc # "raised"

\* in a later iteration select has descended through the single-action root
C11_Witness ==
    /\ OneLegalAction
    /\ pc = "expand"
    /\ range_next >= 3
    /\ selected_node # root_node
    /\ Len(children_of(root_node)) = 1

\* the arena with every ucb field overwritten by v
with_ucb(ns, v) == [n \in 1..Len(ns) |-> [ns[n] EXCEPT !.ucb = v]]

\* C13: select stops at the first node of its descent that has no children
\* or is not exhausted for its child count, so every proper ancestor of the
\* returned node has a child and is exhausted; a descent step moves to the
\* first child in insertion order with the maximum of the scores computed in
\* this pass, and the ucb fields left by earlier passes have no part in it.
C13_SelectDescent ==
    [][pc = "select" =>
          LET temp == nodes[temp_node]
              ch == temp.children
              score(c) == calc_UCB(nodes[c], temp, SQRT2)
          IN IF Len(ch) > 0 /\ state_exhausted(temp.state, Len(ch))
             THEN /\ pc' = "select"
                  /\ \A k \in 1..Len(ch) : nodes'[ch[k]].ucb = score(ch[k])
                  /\ \E k \in 1..Len(ch) :
                        /\ temp_node' = ch[k]
                        /\ \A j \in 1..Len(ch) : score(ch[j]) <= score(ch[k])
                        /\ \A j \in 1..(k - 1) : score(ch[j]) < score(ch[k])
                  /\ \A v \in {-1000000, 0, 1000000} :
                        select_for(with_ucb(nodes, v), temp_node, 1, ch[1])
                                .max_ucb_child
                            = select_for(nodes, temp_node, 1, ch[1]).max_ucb_child
             ELSE /\ pc' = "expand"
                  /\ selected_node' = temp_node
                  /\ nodes' = nodes
                  /\ root_node \in parent_chain(nodes, temp_node)
                  /\ \A a \in parent_chain(nodes, temp_node) \ {temp_node} :
                        /\ Len(nodes[a].children) > 0
                        /\ state_exhausted(nodes[a].state, Len(nodes[a].children))
      ]_vars

\* select is about to descend from the root to a child that is not the first
\* one, while the largest score left by the pass before is another child's
C13_Witness ==
    /\ pc = "select"
    /\ temp_node = root_node
    /\ select_while(nodes[root_node])
    /\ LET r == select_for(nodes, root_node, 1, children_of(root_node)[1])
       IN /\ r.raised = "none"
          /\ r.max_ucb_child # children_of(root_node)[1]
          /\ \E c \in NodeIds :
                /\ nodes[c].parent = root_node
                /\ nodes[c].ucb > nodes[r.max_ucb_child].ucb
                /\ r.nodes[c].ucb < r.nodes[r.max_ucb_child].ucb

\* C14: expand on a terminated node returns that node and changes nothing;
\* on any other node it appends one action id to the node's actions_taken
\* and one new child (visits 0, value 0, no children, parent = the selected
\* node) to its children, and returns that child.  The tree gains at most
\* one node per iteration, no node is removed, and no other step and no
\* other node sees its children or actions_taken change.
C14_ExpandFrame ==
    [][/\ pc = "expand" =>
              LET current_node == nodes[selected_node] IN
              IF terminated(current_node.state)
              THEN /\ pc' = "simulate"
                   /\ expanded_node' = selected_node
                   /\ nodes' = nodes
              ELSE /\ pc' = "simulate"
                   /\ Len(nodes') = Len(nodes) + 1
                   /\ expanded_node' = Len(nodes')
                   /\ LET child == nodes'[expanded_node'] IN
                      /\ child.visits = 0 /\ child.value = 0
                      /\ child.children = <<>> /\ child.actions_taken = <<>>
                      /\ child.parent = selected_node
                   /\ \E a \in 0..8 :
                         nodes'[selected_node] =
                             [current_node EXCEPT
                                 !.actions_taken = Append(@, a),
                                 !.children = Append(@, expanded_node')]
                   /\ \A n \in NodeIds \ {selected_node} : nodes'[n] = nodes[n]
       /\ pc \notin {"call", "expand"} =>
              /\ Len(nodes') = Len(nodes)
              /\ \A n \in NodeIds :
                    /\ nodes'[n].children = nodes[n].children
                    /\ nodes'[n].actions_taken = nodes[n].actions_taken
                    /\ nodes'[n].state = nodes[n].state
                    /\ nodes'[n].parent = nodes[n].parent
       /\ Len(nodes') <= 1 + range_next'
      ]_vars

\* expand has returned a terminated node below the root in one iteration and
\* has added children to a node below the root and to the root in others
C14_Witness ==
    /\ pc = "simulate"
    /\ expanded_node = selected_node
    /\ selected_node # root_node
    /\ terminated(nodes[selected_node].state)
    /\ Len(children_of(root_node)) >= 2
    /\ \E n \in NodeIds :
          /\ n # root_node
          /\ Len(nodes[n].children) >= 1
          /\ Len(nodes[n].actions_taken) >= 1

\* C15: simulate returns a state for which terminated() is true, and it
\* leaves the tree as it was: no node is created, and no node's children,
\* actions_taken, visits, value or state (board and player) changes.
C15_SimulateFrame ==
    [][pc = "simulate" =>
          /\ nodes' = nodes
          /\ pc' \in {"simulate", "backpropogate"}
          /\ pc' = "backpropogate" =>
                /\ sim_state' = sim_state
                /\ terminated(sim_state')
      ]_vars

\* simulate has returned after a rollout of two steps or more
C15_Witness ==
    /\ pc = "backpropogate"
    /\ terminated(sim_state)
    /\ Cardinality(diff_cells(sim_state.board,
                              nodes[expanded_node].state.board)) >= 2

\* C16: whenever expand or simulate calls random_action, the list it draws
\* from (the legal actions, for expand without the selected node's
\* actions_taken) is not empty; no search ends in the failure of choosing
\* from an empty sequence, whatever the board, the iteration count and the
\* draws.
C16_RandomActionHasChoice ==
    /\ exception # "IndexError: Cannot choose from an empty sequence"
    /\ (pc = "expand" /\ ~terminated(nodes[selected_node].state)) =>
          possible_action_locations(nodes[selected_node].state,
                                    nodes[selected_node].actions_taken) # <<>>
    /\ (pc = "simulate" /\ ~terminated(sim_state)) =>
          possible_action_locations(sim_state, <<>>) # <<>>

\* expand is about to draw from a list that the exclusions have cut to its
\* last action
C16_Witness ==
    /\ pc = "expand"
    /\ ~terminated(nodes[selected_node].state)
    /\ Len(nodes[selected_node].actions_taken) >= 1
    /\ Len(possible_action_locations(nodes[selected_node].state,
                                     nodes[selected_node].actions_taken)) = 1

\* the call has returned or raised
Terminated == pc \in {"done", "raised"}

\* what a step does to the measures of the three loops
loop_measures ==
    /\ (pc = "expand" /\ pc' = "simulate") =>
          sim_state' = nodes'[expanded_node'].state
    /\ (pc = "simulate" /\ pc' = "simulate") =>
          /\ Len(possible_actions(sim_state.board)) > 0
          /\ Len(possible_actions(sim_state'.board))
                 = Len(possible_actions(sim_state.board)) - 1
    /\ (pc = "select" /\ pc' = "select") =>
          /\ Cardinality(parent_chain(nodes', temp_node'))
                 = Cardinality(parent_chain(nodes, temp_node)) + 1
          /\ Cardinality(parent_chain(nodes', temp_node')) <= Len(nodes)
    /\ (pc = "for" /\ pc' = "select") =>
          /\ range_next < iterations
          /\ range_next' = range_next + 1
          /\ nodes[root_node].visits = range_next
    /\ (pc = "for" /\ pc' = "sorted") =>
          /\ range_next = (IF iterations > 0 THEN iterations ELSE 0)
          /\ nodes[root_node].visits = range_next
    /\ pc \in {"select", "expand", "simulate", "backpropogate", "debug"} =>
          /\ pc' # "raised"
          /\ range_next' = range_next

\* C17: every search call terminates.  A rollout step fills one empty cell
\* of the board the rollout began with, the expanded node's, so a rollout
\* takes no more steps than that board has empty cells; a descent step of
\* select moves one level down the tree; the loop body is entered while
\* fewer than iterations bodies were, runs to its end, and the loop is left
\* after exactly iterations bodies.
C17_Terminates == <>Terminated /\ [][loop_measures]_vars

\* a call of five iterations or more has returned; its tree is three levels
\* deep
C17_Witness ==
    /\ pc = "done"
    /\ iterations >= 5
    /\ range_next = iterations
    /\ \E n \in NodeIds : Cardinality(parent_chain(nodes, n)) >= 3

\* the nodes reached from node n by following children
RECURSIVE descendants(_, _)
descendants(ns, n) ==
    {n} \cup UNION {descendants(ns, ns[n].children[k]) :
                        k \in 1..Len(ns[n].children)}

\* C18: the nodes form a tree: the root has no parent; every other node is
\* exactly once in the children of its parent and in the children of no
\* other node; every node is reached from the root by following children.
C18_NodesFormTree ==
    nodes # <<>> =>
        /\ nodes[root_node].parent = None
        /\ \A n \in NodeIds \ {root_node} :
              /\ nodes[n].parent \in NodeIds
              /\ Cardinality({k \in 1..Len(children_of(nodes[n].parent)) :
                                 children_of(nodes[n].parent)[k] = n}) = 1
              /\ \A p \in NodeIds \ {nodes[n].parent} :
                    \A k \in 1..Len(children_of(p)) : children_of(p)[k] # n
        /\ \A k \in 1..Len(children_of(root_node)) :
              children_of(root_node)[k] # root_node
        /\ descendants(nodes, root_node) = NodeIds

\* between iterations: a tree three levels deep whose root has two children
C18_Witness ==
    /\ pc = "for"
    /\ Len(children_of(root_node)) >= 2
    /\ \E n \in NodeIds : Cardinality(parent_chain(nodes, n)) >= 3

\* the reward of a state with this player for the rollout that ended in
\* sim_state: +1 to the winner, -1 to the loser, 0 on a draw
reward(player) ==
    LET winner == check_game_state(sim_state.board) IN
    IF winner = DRAW THEN 0 ELSE IF winner = player THEN 1 ELSE -1

\* C19: update_value on a node's state gives +1 exactly when the terminal
\* board is won by that state's player, -1 when the other player won and 0
\* on a draw; so in a backpropagation of a rollout that is not a draw a
\* node and its parent below the root get rewards of opposite sign, and two
\* states with opposite players get rewards that sum to 0.
C19_RewardSigns ==
    [][pc = "backpropogate" =>
          LET chain == parent_chain(nodes, expanded_node) \ {root_node} IN
          /\ check_game_state(sim_state.board) \in {PLAYER1, PLAYER2, DRAW}
          /\ \A n \in NodeIds :
                /\ update_value(nodes[n].state, sim_state)
                       = reward(nodes[n].state.player)
                /\ \A m \in NodeIds :
                      nodes[m].state.player # nodes[n].state.player =>
                          update_value(nodes[n].state, sim_state)
                              + update_value(nodes[m].state, sim_state) = 0
          /\ \A n \in chain :
                /\ nodes'[n].value - nodes[n].value = reward(nodes[n].state.player)
                /\ (nodes[n].parent \in chain /\ reward(PLAYER1) # 0) =>
                      (nodes'[n].value - nodes[n].value)
                          * (nodes'[nodes[n].parent].value
                                 - nodes[nodes[n].parent].value) = -1
      ]_vars

\* a rollout won by PLAYER2 has been backpropagated from a node two levels
\* below the root: the node and its parent hold values of opposite sign
C19_Witness ==
    /\ pc = "debug"
    /\ check_game_state(sim_state.board) = PLAYER2
    /\ nodes[expanded_node].parent \notin {None, root_node}
    /\ nodes[expanded_node].visits = 1
    /\ nodes[expanded_node].value * nodes[nodes[expanded_node].parent].value < 0

\* the sum of the visits of the nodes of a list
RECURSIVE sum_visits(_, _)
sum_visits(ns, lst) ==
    IF lst = <<>> THEN 0 ELSE ns[Head(lst)].visits + sum_visits(ns, Tail(lst))

\* C20: after every completed iteration a node below the root whose state is
\* not terminated has visits = 1 + the sum of its children's visits, a root
\* whose state is not terminated has visits = the sum of its children's
\* visits, and a node whose state is terminated has no children.
C20_VisitConservation ==
    (BetweenIterations /\ nodes # <<>>) =>
        \A n \in NodeIds :
            IF terminated(nodes[n].state) THEN children_of(n) = <<>>
            ELSE IF n = root_node
                 THEN nodes[n].visits = sum_visits(nodes, children_of(n))
            ELSE nodes[n].visits = 1 + sum_visits(nodes, children_of(n))

\* between iterations: a node below the root with two children, and a
\* terminated node that was visited again after its creation
C20_Witness ==
    /\ pc = "for"
    /\ \E n \in NodeIds \ {root_node} : Len(children_of(n)) >= 2
    /\ \E n \in NodeIds : terminated(nodes[n].state) /\ nodes[n].visits >= 2

\* node n is fully expanded: its state is exhausted for its child count
fully_expanded(n) == state_exhausted(nodes[n].state, Len(children_of(n)))

\* C21: after every completed iteration a node below the root that has
\* visits >= 2 or a child has a fully expanded parent, and so has each of
\* its ancestors; a node that is not fully expanded has only children with
\* visits = 1 and without children.
C21_ExpansionOrder ==
    (BetweenIterations /\ nodes # <<>>) =>
        /\ \A n \in NodeIds \ {root_node} :
              (nodes[n].visits >= 2 \/ children_of(n) # <<>>) =>
                  \A a \in parent_chain(nodes, n) \ {n} : fully_expanded(a)
        /\ \A n \in NodeIds :
              ~fully_expanded(n) =>
                  \A k \in 1..Len(children_of(n)) :
                      /\ nodes[children_of(n)[k]].visits = 1
                      /\ children_of(children_of(n)[k]) = <<>>

\* between iterations: a node below the root that was revisited, has one
\* child and is not fully expanded yet
C21_Witness ==
    /\ pc = "for"
    /\ \E n \in NodeIds \ {root_node} :
          /\ nodes[n].visits >= 2
          /\ Len(children_of(n)) = 1
          /\ ~fully_expanded(n)
          /\ fully_expanded(nodes[n].parent)

\* the mark a player writes on the board
mark(player) == IF player = PLAYER1 THEN 1 ELSE 2

\* C22: for every node N and every index k, the board of N.children[k] is
\* N's board with the one cell N.actions_taken[k], empty in N's board, set
\* to the mark of the opponent of N.state.player, and the player of
\* N.children[k] is that opponent; N never has more children than its
\* board has empty cells.
C22_ChildIsActionApplied ==
    \A n \in NodeIds :
        LET state == nodes[n].state
            opponent == IF state.player = PLAYER1 THEN PLAYER2 ELSE PLAYER1
        IN /\ Len(children_of(n)) <= Cardinality({c \in 0..8 : state.board[c] = 0})
           /\ \A k \in 1..Len(children_of(n)) :
                 LET child == nodes[children_of(n)[k]].state IN
                 /\ k <= Len(nodes[n].actions_taken)
                 /\ nodes[n].actions_taken[k] \in 0..8
                 /\ state.board[nodes[n].actions_taken[k]] = 0
                 /\ child.player = opponent
                 /\ child.board[nodes[n].actions_taken[k]] = mark(opponent)
                 /\ diff_cells(state.board, child.board)
                        = {nodes[n].actions_taken[k]}

\* between iterations: the root has children, moves of one player, and a
\* node below it has two children, moves of the other player
C22_Witness ==
    /\ pc = "for"
    /\ Len(children_of(root_node)) >= 2
    /\ \E n \in NodeIds \ {root_node} :
          /\ Len(children_of(n)) = 2
          /\ nodes[n].state.player # nodes[root_node].state.player

====
